---- MODULE Spec2Model ----
(***************************************************************************)
(* Booking / scheduling and status-lifecycle subsystem of starmediatech.   *)
(*                                                                         *)
(* The consultation routes (create, reschedule, status, feedback) and the *)
(* course enrolment handlers are modelled as operations on the document   *)
(* store.  A stored document holds the fields its handlers read and       *)
(* write.  Times are minutes, a rating aggregate is kept in tenths, and a  *)
(* document id is its position in the collection.                          *)
(***************************************************************************)
EXTENDS Integers, Sequences, FiniteSets, TLC

(***************************************************************************)
(* Bounds of the model.                                                    *)
(***************************************************************************)
MaxConsultations == 2
MaxDate == 3
MaxNow == 1
MaxHistory == 2
MaxLifecycle == 2
MaxInflight == 2
MaxRace == 2
MaxRated == 4
MaxCourses == 2
MaxAdmin == 2
MaxSnapshot == 2
MaxStale == 3
MaxProgress == 1
MaxLessons == 11
MaxEnrollRace == 2
MaxRoleRace == 2
MaxAvailability == 2
MaxPending == 1
MaxConflict == 2
MaxServiceRated == 7
MaxReenroll == 2
MaxDelete == 2

(***************************************************************************)
(* Program constants.                                                      *)
(***************************************************************************)
SlotMinutes == 30
MinRating == 1
MaxRating == 5

(***************************************************************************)
(* Identities.  A Consultant profile is a document of its own, linked to   *)
(* a user by reference; its id is never a user id.                         *)
(***************************************************************************)
Clients == {"u1", "u2"}
ConsultantUsers == {"cu1", "cu2"}
Instructors == {"i1"}
Admins == {"admin"}
Users == Clients \cup ConsultantUsers \cup Instructors \cup Admins
ConsultantIds == {"c1", "c2"}
ServiceIds == {"s1", "s2"}

NoUser == "none"
NoText == ""
NoTime == -1
NoAmount == -1
NoDiscount == 0

\* the role each user account starts with
initialRole(u) ==
  IF u \in Admins THEN "admin"
  ELSE IF u \in ConsultantUsers THEN "consultant"
  ELSE IF u \in Instructors THEN "instructor"
  ELSE "student"

Dates == {SlotMinutes * i : i \in 0..MaxDate}
Durations == {30, 60}
TimeSlots == {"A", "B"}
Reasons == {NoText, "busy"}
Feedbacks == {NoText, "great"}
Ratings == MinRating..MaxRating

Statuses == {"scheduled", "confirmed", "rescheduled", "completed", "cancelled", "no-show"}
NonTerminal == {"scheduled", "confirmed", "rescheduled"}
Terminal == {"completed", "cancelled", "no-show"}

VARIABLES
  consultations,   \* the Consultation collection, in insertion order
  consultants,     \* the Consultant collection: id -> profile
  services,        \* the Service collection: id -> service
  now,             \* the wall clock read by `new Date()'
  response,        \* the response of the last request: [op, code]
  inflight,        \* create-booking requests between their conflict check and their save
  courses,         \* the Course collection, in insertion order
  enrollments,     \* the Enrollment collection, in insertion order
  users,           \* the User collection: id -> account
  bookings         \* the ServiceBooking collection, in insertion order

vars == <<consultations, consultants, services, now, response, inflight, courses, enrollments,
          users, bookings>>

\* req.user.role
role(u) == users[u].role

(***************************************************************************)
(* Store queries.                                                          *)
(***************************************************************************)
Ids == DOMAIN consultations

\* Consultation.findOne({consultant, scheduledDate, timeSlot,
\*                       status: {$in: ['scheduled','confirmed']}, _id: {$ne: self}})
\* (self = 0 when the query carries no _id clause)
conflictingConsultation(consultant, date, timeSlot, self) ==
  {k \in Ids :
      /\ k # self
      /\ consultations[k].consultant = consultant
      /\ consultations[k].scheduledDate = date
      /\ consultations[k].timeSlot = timeSlot
      /\ consultations[k].status \in {"scheduled", "confirmed"}}

\* findByIdAndUpdate(id, {$set: fields}): the paths of the document that the
\* fields name are overwritten, the others are kept
Merge(doc, fields) ==
  [f \in DOMAIN doc |-> IF f \in DOMAIN fields THEN fields[f] ELSE doc[f]]

Respond(op, code) == response' = [op |-> op, code |-> code]

(***************************************************************************)
(* POST /consultations                                                     *)
(***************************************************************************)
NewConsultation(caller, service, consultant, date, duration, timeSlot) ==
  [user |-> caller,
   service |-> service,
   consultant |-> consultant,
   scheduledDate |-> date,
   endTime |-> date + duration,
   duration |-> duration,
   timeSlot |-> timeSlot,
   amount |-> services[service].price,
   status |-> "scheduled",
   rescheduleHistory |-> <<>>,
   rating |-> 0,
   feedback |-> NoText,
   feedbackProvided |-> FALSE,
   cancellationReason |-> NoText,
   cancelledBy |-> NoUser,
   cancelledAt |-> NoTime,
   completedAt |-> NoTime]

\* variant: no check that the consultant offers the service
CreateRejectCodeAnyConsultant(service, consultant, date) ==
  IF service \notin DOMAIN services \/ ~services[service].isActive THEN 404
  ELSE IF consultant \notin DOMAIN consultants \/ ~consultants[consultant].isActive THEN 404
  ELSE IF date <= now THEN 400
  ELSE 0

\* the validations that precede the conflict query; 0 when all pass
CreateRejectCode(service, consultant, date) ==
  IF service \notin DOMAIN services \/ ~services[service].isActive THEN 404
  ELSE IF consultant \notin DOMAIN consultants \/ ~consultants[consultant].isActive THEN 404
  ELSE IF consultant # services[service].consultant THEN 400
  ELSE IF date <= now THEN 400
  ELSE 0

CreateBooking(caller, service, consultant, date, duration, timeSlot) ==
  /\ LET code == CreateRejectCode(service, consultant, date) IN
     IF code # 0
     THEN /\ Respond("create", code)
          /\ UNCHANGED consultations
     ELSE IF conflictingConsultation(consultant, date, timeSlot, 0) # {}
     THEN /\ Respond("create", 400)
          /\ UNCHANGED consultations
     ELSE /\ consultations' = Append(consultations,
                 NewConsultation(caller, service, consultant, date, duration, timeSlot))
          /\ Respond("create", 201)
  /\ UNCHANGED <<consultants, services, now, inflight, courses, enrollments, users, bookings>>

(***************************************************************************)
(* PUT /consultations/:id/reschedule                                       *)
(***************************************************************************)
\* the in-memory document after the handler's assignments: scheduledDate is
\* assigned first, the history entry reads it afterwards
RescheduledOverwritingHistory(c, caller, date, timeSlot, reason) ==
  [c EXCEPT !.scheduledDate = date,
            !.timeSlot = timeSlot,
            !.endTime = date + c.duration,
            !.status = "rescheduled",
            !.rescheduleHistory =
               <<[previousDate |-> date,
                  newDate |-> date,
                  reason |-> IF reason # NoText THEN reason ELSE "No reason provided",
                  rescheduledBy |-> caller]>>]

Rescheduled(c, caller, date, timeSlot, reason) ==
  LET moved == [c EXCEPT !.scheduledDate = date,
                         !.timeSlot = timeSlot,
                         !.endTime = date + c.duration,
                         !.status = "rescheduled"]
  IN [moved EXCEPT !.rescheduleHistory = Append(c.rescheduleHistory,
         [previousDate |-> moved.scheduledDate,
          newDate |-> date,
          reason |-> IF reason # NoText THEN reason ELSE "No reason provided",
          rescheduledBy |-> caller])]

\* variant: a rescheduled consultation may be rescheduled again
ReschedulableStatusesWithRescheduled == {"scheduled", "confirmed", "rescheduled"}

ReschedulableStatuses == {"scheduled", "confirmed"}

\* variant: no status guard
RescheduleRejectCodeAnyStatus(caller, id, date, timeSlot) ==
  IF id \notin Ids THEN 404
  ELSE IF consultations[id].user # caller /\ role(caller) # "admin" THEN 403
  ELSE IF date <= now THEN 400
  ELSE IF conflictingConsultation(consultations[id].consultant, date, timeSlot, id) # {} THEN 400
  ELSE 0

RescheduleRejectCode(caller, id, date, timeSlot) ==
  IF id \notin Ids THEN 404
  ELSE IF consultations[id].user # caller /\ role(caller) # "admin" THEN 403
  ELSE IF consultations[id].status \notin ReschedulableStatuses THEN 400
  ELSE IF date <= now THEN 400
  ELSE IF conflictingConsultation(consultations[id].consultant, date, timeSlot, id) # {} THEN 400
  ELSE 0

Reschedule(caller, id, date, timeSlot, reason) ==
  /\ LET code == RescheduleRejectCode(caller, id, date, timeSlot) IN
     IF code # 0
     THEN /\ Respond("reschedule", code)
          /\ UNCHANGED consultations
     ELSE /\ consultations' = [consultations EXCEPT ![id] =
                 Rescheduled(consultations[id], caller, date, timeSlot, reason)]
          /\ Respond("reschedule", 200)
  /\ UNCHANGED <<consultants, services, now, inflight, courses, enrollments, users, bookings>>

(***************************************************************************)
(* PUT /consultations/:id/status                                           *)
(***************************************************************************)
RequestableStatuses == {"confirmed", "cancelled", "completed", "no-show"}

\* variant: every caller may cancel
isAuthorizedAnyoneCancels(caller, c, status) ==
  IF status = "confirmed" /\ c.consultant = caller THEN TRUE
  ELSE IF status = "cancelled" THEN TRUE
  ELSE IF status = "completed" /\ c.consultant = caller THEN TRUE
  ELSE IF status = "no-show" /\ c.consultant = caller THEN TRUE
  ELSE role(caller) = "admin"

isAuthorized(caller, c, status) ==
  IF status = "confirmed" /\ c.consultant = caller THEN TRUE
  ELSE IF status = "cancelled"
       THEN c.user = caller \/ c.consultant = caller \/ role(caller) = "admin"
  ELSE IF status = "completed" /\ c.consultant = caller THEN TRUE
  ELSE IF status = "no-show" /\ c.consultant = caller THEN TRUE
  ELSE role(caller) = "admin"

\* variant: scheduled may be completed directly and cancelled may be confirmed
validTransitionsNoTerminal(from) ==
  CASE from = "scheduled" -> {"confirmed", "cancelled", "completed"}
    [] from = "confirmed" -> {"completed", "cancelled", "no-show"}
    [] from = "rescheduled" -> {"confirmed", "cancelled"}
    [] from = "cancelled" -> {"confirmed"}
    [] OTHER -> {}

validTransitions(from) ==
  CASE from = "scheduled" -> {"confirmed", "cancelled"}
    [] from = "confirmed" -> {"completed", "cancelled", "no-show"}
    [] from = "rescheduled" -> {"confirmed", "cancelled"}
    [] OTHER -> {}

StatusRejectCode(caller, id, status) ==
  IF status \notin RequestableStatuses THEN 400
  ELSE IF id \notin Ids THEN 404
  ELSE IF ~isAuthorized(caller, consultations[id], status) THEN 403
  ELSE IF status \notin validTransitions(consultations[id].status) THEN 400
  ELSE 0

\* variant: the status update refreshes the amount from the service
StatusUpdatedRepriced(c, caller, status, cancellationReason) ==
  LET s1 == [c EXCEPT !.status = status, !.amount = services[c.service].price]
      s2 == IF status = "cancelled" /\ cancellationReason # NoText
            THEN [s1 EXCEPT !.cancellationReason = cancellationReason,
                            !.cancelledBy = caller,
                            !.cancelledAt = now]
            ELSE s1
  IN IF status = "completed" THEN [s2 EXCEPT !.completedAt = now] ELSE s2

StatusUpdated(c, caller, status, cancellationReason) ==
  LET s1 == [c EXCEPT !.status = status]
      s2 == IF status = "cancelled" /\ cancellationReason # NoText
            THEN [s1 EXCEPT !.cancellationReason = cancellationReason,
                            !.cancelledBy = caller,
                            !.cancelledAt = now]
            ELSE s1
  IN IF status = "completed" THEN [s2 EXCEPT !.completedAt = now] ELSE s2

UpdateStatus(caller, id, status, cancellationReason) ==
  /\ LET code == StatusRejectCode(caller, id, status) IN
     IF code # 0
     THEN /\ Respond("status", code)
          /\ UNCHANGED consultations
     ELSE /\ consultations' = [consultations EXCEPT ![id] =
                 StatusUpdated(consultations[id], caller, status, cancellationReason)]
          /\ Respond("status", 200)
  /\ UNCHANGED <<consultants, services, now, inflight, courses, enrollments, users, bookings>>

(***************************************************************************)
(* POST /consultations/:id/feedback and the rating aggregate               *)
(***************************************************************************)
RECURSIVE SumRatings(_, _)
SumRatings(cs, ks) ==
  IF ks = {} THEN 0
  ELSE LET k == CHOOSE x \in ks : TRUE
       IN cs[k].rating + SumRatings(cs, ks \ {k})

\* variant: truncation to one decimal instead of rounding
toFixed1Truncated(sum, n) == (10 * sum) \div n

\* parseFloat((sum / n).toFixed(1)), in tenths
toFixed1(sum, n) == (20 * sum + n) \div (2 * n)

\* the $match / $group stage over the collection cs, then findByIdAndUpdate
updateConsultantRating(cs, consultantId) ==
  LET rated == {k \in DOMAIN cs : cs[k].consultant = consultantId /\ cs[k].rating > 0}
  IN IF rated # {}
     THEN [consultants EXCEPT ![consultantId] =
             [@ EXCEPT !.rating = toFixed1(SumRatings(cs, rated), Cardinality(rated)),
                       !.totalRatings = Cardinality(rated)]]
     ELSE consultants

\* variant: no feedbackProvided guard
FeedbackRejectCodeNoGuard(caller, id, rating) ==
  IF rating \notin MinRating..MaxRating THEN 400
  ELSE IF id \notin Ids THEN 404
  ELSE IF consultations[id].user # caller THEN 403
  ELSE IF consultations[id].status # "completed" THEN 400
  ELSE 0

FeedbackRejectCode(caller, id, rating) ==
  IF rating \notin MinRating..MaxRating THEN 400
  ELSE IF id \notin Ids THEN 404
  ELSE IF consultations[id].user # caller THEN 403
  ELSE IF consultations[id].status # "completed" THEN 400
  ELSE IF consultations[id].feedbackProvided THEN 400
  ELSE 0

Feedback(caller, id, rating, feedback) ==
  /\ LET code == FeedbackRejectCode(caller, id, rating) IN
     IF code # 0
     THEN /\ Respond("feedback", code)
          /\ UNCHANGED <<consultations, consultants>>
     ELSE LET saved == [consultations EXCEPT ![id] =
                          [@ EXCEPT !.rating = rating,
                                    !.feedback = feedback,
                                    !.feedbackProvided = TRUE]]
          IN /\ consultations' = saved
             /\ consultants' = updateConsultantRating(saved, saved[id].consultant)
             /\ Respond("feedback", 200)
  /\ UNCHANGED <<services, now, inflight, courses, enrollments, users, bookings>>

(***************************************************************************)
(* POST /consultations/:id/feedback when the store may fail while the      *)
(* aggregate is recomputed                                                 *)
(***************************************************************************)
\* the try / catch of updateConsultantRating: a failure of the aggregation or
\* of the write is logged and the Consultant collection stays as it was
updateConsultantRatingOrFail(cs, consultantId, fails) ==
  IF fails THEN consultants ELSE updateConsultantRating(cs, consultantId)

\* variant: a failed aggregate undoes the feedback and is answered 500
FeedbackRolledBack(caller, id, rating, feedback, fails) ==
  /\ LET code == FeedbackRejectCode(caller, id, rating) IN
     IF code # 0
     THEN /\ Respond("feedback", code)
          /\ UNCHANGED <<consultations, consultants>>
     ELSE IF fails
     THEN /\ Respond("feedback", 500)
          /\ UNCHANGED <<consultations, consultants>>
     ELSE LET saved == [consultations EXCEPT ![id] =
                          [@ EXCEPT !.rating = rating,
                                    !.feedback = feedback,
                                    !.feedbackProvided = TRUE]]
          IN /\ consultations' = saved
             /\ consultants' = updateConsultantRating(saved, saved[id].consultant)
             /\ Respond("feedback", 200)
  /\ UNCHANGED <<services, now, inflight, courses, enrollments, users, bookings>>

FeedbackBestEffort(caller, id, rating, feedback, fails) ==
  /\ LET code == FeedbackRejectCode(caller, id, rating) IN
     IF code # 0
     THEN /\ Respond("feedback", code)
          /\ UNCHANGED <<consultations, consultants>>
     ELSE LET saved == [consultations EXCEPT ![id] =
                          [@ EXCEPT !.rating = rating,
                                    !.feedback = feedback,
                                    !.feedbackProvided = TRUE]]
          IN /\ consultations' = saved
             /\ consultants' =
                  updateConsultantRatingOrFail(saved, saved[id].consultant, fails)
             /\ Respond("feedback", 200)
  /\ UNCHANGED <<services, now, inflight, courses, enrollments, users, bookings>>

(***************************************************************************)
(* Courses: POST /courses, the createCourse controller and                 *)
(* PUT /admin/courses/:id/status                                           *)
(***************************************************************************)
\* the stored courses; the place of a deleted course stays taken, so that an
\* id is never given twice
CourseIds == {c \in DOMAIN courses : ~courses[c].deleted}
CourseStatuses == {"published", "draft", "archived"}
EnrollmentStatuses == {"active", "completed", "cancelled", "paused", "expired"}

NewCourse(caller, price, discountedPrice, isPublished, status) ==
  [instructor |-> caller,
   price |-> price,
   discountedPrice |-> discountedPrice,
   isPublished |-> isPublished,
   status |-> status,
   enrollmentCount |-> 0,
   studentsEnrolled |-> 0,
   deleted |-> FALSE]

PostCourse(caller, price, isPublished) ==
  /\ IF role(caller) \notin {"instructor", "admin"}
     THEN /\ Respond("course", 403)
          /\ UNCHANGED courses
     ELSE /\ courses' = Append(courses,
               NewCourse(caller, price, NoDiscount, isPublished,
                         IF isPublished THEN "published" ELSE "draft"))
          /\ Respond("course", 201)
  /\ UNCHANGED <<consultations, consultants, services, now, inflight, enrollments, users, bookings>>

\* Course.create({...req.body, instructor}); a discountedPrice above the price
\* fails the schema validator and the catch block answers 500
createCourse(caller, body) ==
  /\ IF body.discountedPrice > body.price
     THEN /\ Respond("course", 500)
          /\ UNCHANGED courses
     ELSE /\ courses' = Append(courses,
               NewCourse(caller, body.price, body.discountedPrice,
                         body.isPublished, body.status))
          /\ Respond("course", 201)
  /\ UNCHANGED <<consultations, consultants, services, now, inflight, enrollments, users, bookings>>

PutCourseStatus(caller, id, status) ==
  /\ IF role(caller) # "admin" THEN Respond("courseStatus", 403) /\ UNCHANGED courses
     ELSE IF status \notin CourseStatuses THEN Respond("courseStatus", 400) /\ UNCHANGED courses
     ELSE IF id \notin CourseIds THEN Respond("courseStatus", 404) /\ UNCHANGED courses
     ELSE /\ courses' = [courses EXCEPT ![id] =
                 [@ EXCEPT !.status = status, !.isPublished = (status = "published")]]
          /\ Respond("courseStatus", 200)
  /\ UNCHANGED <<consultations, consultants, services, now, inflight, enrollments, users, bookings>>

\* PUT /courses/:id: the body is written with $set; a status is derived only
\* when the body carries isPublished
PutCourse(caller, id, body) ==
  /\ IF id \notin CourseIds
     THEN Respond("courseUpdate", 404) /\ UNCHANGED courses
     ELSE IF courses[id].instructor # caller /\ role(caller) # "admin"
     THEN Respond("courseUpdate", 403) /\ UNCHANGED courses
     ELSE LET derived == IF "isPublished" \in DOMAIN body
                         THEN [f \in DOMAIN body \cup {"status"} |->
                                 IF f = "status"
                                 THEN IF body.isPublished THEN "published" ELSE "draft"
                                 ELSE body[f]]
                         ELSE body
              updateFields == IF role(caller) # "admin"
                              THEN [f \in DOMAIN derived \ {"instructor"} |-> derived[f]]
                              ELSE derived
          IN /\ courses' = [courses EXCEPT ![id] = Merge(@, updateFields)]
             /\ Respond("courseUpdate", 200)
  /\ UNCHANGED <<consultations, consultants, services, now, inflight, enrollments, users,
                 bookings>>

(***************************************************************************)
(* POST /courses/:id/enroll: the route handler and the enrollInCourse      *)
(* controller, over the Enrollment collection with its unique              *)
(* (user, course) index                                                    *)
(***************************************************************************)
\* variant: the lookup never finds an enrollment
existingEnrollmentNone(user, course, statuses) == {}

\* Enrollment.findOne({user, course, status: {$in: statuses}})
existingEnrollment(user, course, statuses) ==
  {k \in DOMAIN enrollments :
     /\ enrollments[k].user = user
     /\ enrollments[k].course = course
     /\ enrollments[k].status \in statuses}

\* variant: the collection has no unique index
DuplicateKeyNone(user, course) == FALSE

\* the unique index {user: 1, course: 1}: a second document for the pair is
\* refused with a duplicate-key error
DuplicateKey(user, course) == existingEnrollment(user, course, EnrollmentStatuses) # {}

NewEnrollment(user, course, amountPaid, price) ==
  [user |-> user, course |-> course, status |-> "active",
   amountPaid |-> amountPaid, price |-> price,
   completedLessons |-> <<>>, overall |-> 0, certificateIssued |-> FALSE]

EnrollRejectCode(caller, id) ==
  IF id \notin CourseIds THEN 404
  ELSE IF ~courses[id].isPublished \/ courses[id].status # "published" THEN 400
  ELSE IF existingEnrollment(caller, id, {"active", "completed"}) # {} THEN 400
  ELSE IF DuplicateKey(caller, id) THEN 500
  ELSE 0

PostEnroll(caller, id) ==
  /\ LET code == EnrollRejectCode(caller, id) IN
     IF code # 0
     THEN /\ Respond("enroll", code)
          /\ UNCHANGED <<courses, enrollments>>
     ELSE /\ enrollments' = Append(enrollments,
               NewEnrollment(caller, id, courses[id].price, NoAmount))
          /\ courses' = [courses EXCEPT ![id].enrollmentCount = @ + 1]
          /\ Respond("enroll", 201)
  /\ UNCHANGED <<consultations, consultants, services, now, inflight, users, bookings>>

enrollInCourseRejectCode(caller, id) ==
  IF id \notin CourseIds THEN 404
  ELSE IF existingEnrollment(caller, id, EnrollmentStatuses) # {} THEN 400
  ELSE IF DuplicateKey(caller, id) THEN 500
  ELSE 0

enrollInCourse(caller, id) ==
  /\ LET code == enrollInCourseRejectCode(caller, id) IN
     IF code # 0
     THEN /\ Respond("enroll", code)
          /\ UNCHANGED <<courses, enrollments>>
     ELSE /\ enrollments' = Append(enrollments,
               NewEnrollment(caller, id, NoAmount,
                  IF courses[id].discountedPrice # NoDiscount
                  THEN courses[id].discountedPrice ELSE courses[id].price))
          /\ courses' = [courses EXCEPT ![id].studentsEnrolled = @ + 1]
          /\ Respond("enroll", 201)
  /\ UNCHANGED <<consultations, consultants, services, now, inflight, users, bookings>>

(***************************************************************************)
(* Services: PUT /services/:id and POST /services/:id/toggle-active        *)
(***************************************************************************)
ServiceRejectCode(caller, id) ==
  IF id \notin DOMAIN services THEN 404
  ELSE IF services[id].consultant # caller /\ role(caller) # "admin" THEN 403
  ELSE 0

PutService(caller, id, body) ==
  /\ LET code == ServiceRejectCode(caller, id)
         updateFields == IF role(caller) # "admin"
                         THEN [f \in DOMAIN body \ {"consultant"} |-> body[f]]
                         ELSE body
     IN IF code # 0
        THEN /\ Respond("service", code)
             /\ UNCHANGED services
        ELSE /\ services' = [services EXCEPT ![id] = Merge(@, updateFields)]
             /\ Respond("service", 200)
  /\ UNCHANGED <<consultations, consultants, now, inflight, courses, enrollments, users, bookings>>

ToggleActive(caller, id) ==
  /\ LET code == ServiceRejectCode(caller, id) IN
     IF code # 0
     THEN /\ Respond("toggle", code)
          /\ UNCHANGED services
     ELSE /\ services' = [services EXCEPT ![id].isActive = ~@]
          /\ Respond("toggle", 200)
  /\ UNCHANGED <<consultations, consultants, now, inflight, courses, enrollments, users, bookings>>

(***************************************************************************)
(* The service marketplace: the bookService and updateService controllers  *)
(***************************************************************************)
DateStrings == {"2030-01-01", "2030-01-01T00:00:00.000Z", "2030-01-02"}

\* new Date(date): the instant a date string denotes, in days
parseDate(date) == IF date = "2030-01-02" THEN 2 ELSE 1

\* the status a ServiceBooking document has when none is given
DefaultBookingStatus == "pending"

\* variant: the lookup never finds a booking
conflictingBookingNone(service, date) == {}

\* ServiceBooking.findOne({service, date: new Date(date), status: {$in: [...]}})
conflictingBooking(service, date) ==
  {k \in DOMAIN bookings :
     /\ bookings[k].service = service
     /\ bookings[k].date = parseDate(date)
     /\ bookings[k].status \in {"pending", "confirmed"}}

bookServiceRejectCode(id, date) ==
  IF id \notin DOMAIN services THEN 404
  ELSE IF services[id].status # "active" THEN 400
  ELSE IF conflictingBooking(id, date) # {} THEN 400
  ELSE 0

bookService(caller, id, date, duration) ==
  /\ LET code == bookServiceRejectCode(id, date) IN
     IF code # 0
     THEN /\ Respond("book", code)
          /\ UNCHANGED bookings
     ELSE /\ bookings' = Append(bookings,
               [service |-> id,
                client |-> caller,
                provider |-> services[id].provider,
                date |-> parseDate(date),
                duration |-> duration,
                totalPrice |-> services[id].price * duration,
                status |-> DefaultBookingStatus])
          /\ Respond("book", 201)
  /\ UNCHANGED <<consultations, consultants, services, now, inflight, courses, enrollments,
                 users>>

updateService(caller, id, body) ==
  /\ IF id \notin DOMAIN services
     THEN Respond("service", 404) /\ UNCHANGED services
     ELSE IF services[id].provider # caller /\ role(caller) # "admin"
     THEN Respond("service", 403) /\ UNCHANGED services
     ELSE /\ services' = [services EXCEPT ![id] = Merge(@, body)]
          /\ Respond("service", 200)
  /\ UNCHANGED <<consultations, consultants, now, inflight, courses, enrollments, users,
                 bookings>>

(***************************************************************************)
(* Admin: PUT /admin/consultants/:id/approval and PUT /admin/users/:id/role *)
(***************************************************************************)
ConsultantPool == {"c1", "c2", "c3", "c4"}
Roles == {"student", "consultant", "instructor", "admin"}

Approved(profile, approvalStatus) ==
  [profile EXCEPT !.approvalStatus = approvalStatus, !.isActive = TRUE]

Approval(caller, id, action) ==
  /\ IF role(caller) # "admin"
     THEN Respond("approval", 403) /\ UNCHANGED <<consultants, users>>
     ELSE IF action \notin {"approve", "reject"}
     THEN Respond("approval", 400) /\ UNCHANGED <<consultants, users>>
     ELSE IF id \notin DOMAIN consultants
     THEN Respond("approval", 404) /\ UNCHANGED <<consultants, users>>
     ELSE IF action = "approve"
     THEN /\ consultants' = [consultants EXCEPT ![id] = Approved(@, "approved")]
          /\ users' = [users EXCEPT ![consultants[id].user].role = "consultant"]
          /\ Respond("approval", 200)
     ELSE /\ consultants' = [consultants EXCEPT ![id].approvalStatus = "rejected"]
          /\ UNCHANGED users
          /\ Respond("approval", 200)
  /\ UNCHANGED <<consultations, services, now, inflight, courses, enrollments, bookings>>

\* Consultant.findOne({user}): the profiles of the user
profilesOf(user) == {c \in DOMAIN consultants : consultants[c].user = user}

PutUserRole(caller, user, newRole) ==
  /\ IF role(caller) # "admin"
     THEN Respond("role", 403) /\ UNCHANGED <<consultants, users>>
     ELSE IF newRole \notin Roles
     THEN Respond("role", 400) /\ UNCHANGED <<consultants, users>>
     ELSE IF user \notin DOMAIN users
     THEN Respond("role", 404) /\ UNCHANGED <<consultants, users>>
     ELSE /\ consultants' =
               IF newRole # "consultant" THEN consultants
               ELSE IF profilesOf(user) = {}
               THEN LET id == CHOOSE c \in ConsultantPool \ DOMAIN consultants : TRUE
                    IN consultants @@ (id :> [user |-> user, isActive |-> TRUE,
                                             approvalStatus |-> "approved",
                                             rating |-> 0, totalRatings |-> 0])
               ELSE LET id == CHOOSE c \in profilesOf(user) : TRUE
                    IN [consultants EXCEPT ![id] = Approved(@, "approved")]
          /\ users' = [users EXCEPT ![user].role = newRole]
          /\ Respond("role", 200)
  /\ UNCHANGED <<consultations, services, now, inflight, courses, enrollments, bookings>>

(***************************************************************************)
(* Enrollment progress: the model's instance methods and pre-save hook.    *)
(* progress.overall is kept in whole percent.                              *)
(***************************************************************************)
\* the placeholder lesson count of the pre-save hook
totalLessons == 10

Min(a, b) == IF a < b THEN a ELSE b

\* pre('save') with progress.completedLessons modified: overall is recomputed
\* from the number of completed lessons, and no other field is touched
preSave(doc) ==
  IF Len(doc.completedLessons) > 0
  THEN [doc EXCEPT !.overall = Min(100, (Len(doc.completedLessons) * 100) \div totalLessons)]
  ELSE doc

existingCompletion(doc, lessonId) ==
  \E i \in 1..Len(doc.completedLessons) : doc.completedLessons[i] = lessonId

\* enrollment.markLessonCompleted(lessonId): the lesson is pushed unless it is
\* already there, then the document is saved
markLessonCompleted(k, lessonId) ==
  /\ k \in 1..Len(enrollments)
  /\ enrollments' =
       IF existingCompletion(enrollments[k], lessonId)
       THEN enrollments
       ELSE [enrollments EXCEPT ![k] =
               preSave([@ EXCEPT !.completedLessons = Append(@, lessonId)])]
  /\ Respond("lesson", 200)
  /\ UNCHANGED <<consultations, consultants, services, now, inflight, courses, users, bookings>>

\* enrollment.issueCertificate(): throws unless the enrollment is completed
issueCertificate(k) ==
  /\ k \in 1..Len(enrollments)
  /\ IF enrollments[k].status # "completed"
     THEN /\ Respond("certificate", 500)
          /\ UNCHANGED enrollments
     ELSE /\ enrollments' = [enrollments EXCEPT ![k].certificateIssued = TRUE]
          /\ Respond("certificate", 200)
  /\ UNCHANGED <<consultations, consultants, services, now, inflight, courses, users, bookings>>

(***************************************************************************)
(* The clock.                                                              *)
(***************************************************************************)
Tick ==
  /\ now < MaxNow * SlotMinutes
  /\ now' = now + SlotMinutes
  /\ UNCHANGED <<consultations, consultants, services, response, inflight, courses, enrollments, users, bookings>>

Init ==
  /\ consultations = <<>>
  /\ consultants = [c \in ConsultantIds |->
        [user |-> IF c = "c1" THEN "cu1" ELSE "cu2",
         isActive |-> TRUE, approvalStatus |-> "approved",
         rating |-> 0, totalRatings |-> 0]]
  /\ services = [s \in ServiceIds |->
        [consultant |-> IF s = "s1" THEN "c1" ELSE "c2",
         provider |-> IF s = "s1" THEN "cu1" ELSE "cu2",
         price |-> IF s = "s1" THEN 50 ELSE 80,
         isActive |-> TRUE,
         status |-> "active",
         rating |-> [average |-> 0, count |-> 0,
                     distribution |-> [k \in MinRating..MaxRating |-> 0]]]]
  /\ now = 0
  /\ response = [op |-> "none", code |-> 0]
  /\ inflight = {}
  /\ courses = <<>>
  /\ enrollments = <<>>
  /\ users = [u \in Users |-> [role |-> initialRole(u)]]
  /\ bookings = <<>>

(***************************************************************************)
(* Spec: the booking calendar.  Create-booking and reschedule requests,    *)
(* one request at a time, while the clock advances.                        *)
(***************************************************************************)
Next ==
  \/ \E caller \in {"u1"}, service \in ServiceIds, consultant \in ConsultantIds,
        date \in Dates, duration \in Durations, timeSlot \in TimeSlots :
        /\ Len(consultations) < MaxConsultations
        /\ CreateBooking(caller, service, consultant, date, duration, timeSlot)
  \/ \E caller \in {"u1", "cu1"}, id \in 1..MaxConsultations,
        date \in Dates, timeSlot \in TimeSlots, reason \in {NoText} :
        Reschedule(caller, id, date, timeSlot, reason)
  \/ Tick

Spec == Init /\ [][Next]_vars

(***************************************************************************)
(* SpecLifecycle: every consultation route on the bookings of one          *)
(* consultant, one request at a time.  SpecReschedule: the same with the   *)
(* administrator as a rescheduling caller and as the only status caller.   *)
(***************************************************************************)
HistoryRoom(id) ==
  id \in Ids => Len(consultations[id].rescheduleHistory) < MaxHistory

NextLifecycle ==
  \/ \E caller \in {"u1"}, service \in {"s1"}, consultant \in ConsultantIds,
        date \in {0, 30, 60}, duration \in {60}, timeSlot \in {"A"} :
        /\ Len(consultations) < MaxLifecycle
        /\ CreateBooking(caller, service, consultant, date, duration, timeSlot)
  \/ \E caller \in {"u1", "cu1"}, id \in 1..MaxLifecycle,
        date \in {0, 30, 60}, timeSlot \in {"A"}, reason \in {NoText} :
        /\ HistoryRoom(id)
        /\ Reschedule(caller, id, date, timeSlot, reason)
  \/ \E caller \in {"u1", "cu1", "admin"}, id \in 1..MaxLifecycle,
        status \in Statuses, cancellationReason \in Reasons :
        UpdateStatus(caller, id, status, cancellationReason)
  \/ \E caller \in {"u1", "cu1"}, id \in 1..MaxLifecycle,
        rating \in {0, 2, 5}, feedback \in Feedbacks :
        Feedback(caller, id, rating, feedback)

SpecLifecycle == Init /\ [][NextLifecycle]_vars

NextReschedule ==
  \/ \E caller \in {"u1"}, service \in {"s1"}, consultant \in {"c1"},
        date \in {30, 60}, duration \in {30}, timeSlot \in {"A"} :
        /\ Len(consultations) < MaxLifecycle
        /\ CreateBooking(caller, service, consultant, date, duration, timeSlot)
  \/ \E caller \in {"u1", "cu1", "admin"}, id \in 1..MaxLifecycle,
        date \in {0, 30, 60}, timeSlot \in {"A"}, reason \in {NoText} :
        /\ HistoryRoom(id)
        /\ Reschedule(caller, id, date, timeSlot, reason)
  \/ \E caller \in {"admin"}, id \in 1..MaxLifecycle,
        status \in RequestableStatuses, cancellationReason \in {NoText} :
        UpdateStatus(caller, id, status, cancellationReason)

SpecReschedule == Init /\ [][NextReschedule]_vars

(***************************************************************************)
(* Courses are created and published, users enroll.                        *)
(***************************************************************************)
CourseBodies ==
  {[price |-> 100, discountedPrice |-> d, isPublished |-> TRUE, status |-> "published"] :
     d \in {NoDiscount, 80, 120}}

NextEnroll ==
  \/ \E caller \in {"i1", "u1"}, price \in {100}, isPublished \in BOOLEAN :
        /\ Len(courses) < MaxCourses
        /\ PostCourse(caller, price, isPublished)
  \/ \E caller \in {"i1"}, body \in CourseBodies :
        /\ Len(courses) < MaxCourses
        /\ createCourse(caller, body)
  \/ \E caller \in {"admin", "i1"}, id \in 1..MaxCourses, status \in {"published", "archived"} :
        PutCourseStatus(caller, id, status)
  \/ \E caller \in Clients, id \in 1..MaxCourses : PostEnroll(caller, id)
  \/ \E caller \in Clients, id \in 1..MaxCourses : enrollInCourse(caller, id)

SpecEnroll == Init /\ [][NextEnroll]_vars

(***************************************************************************)
(* Bookings while services are switched on and off and consultants are     *)
(* approved, rejected and given roles.                                     *)
(***************************************************************************)
NextAdmin ==
  \/ \E caller \in {"u1"}, service \in ServiceIds \cup {"s3"}, consultant \in ConsultantPool,
        date \in {0, SlotMinutes}, duration \in {SlotMinutes}, timeSlot \in {"A"} :
        /\ Len(consultations) < MaxAdmin
        /\ CreateBooking(caller, service, consultant, date, duration, timeSlot)
  \/ \E caller \in {"cu1", "admin"}, id \in {"s1", "s3"} : ToggleActive(caller, id)
  \/ \E caller \in {"cu1", "admin"}, id \in {"c1", "c3"}, action \in {"approve", "reject"} :
        Approval(caller, id, action)
  \/ \E caller \in {"u2", "admin"}, user \in {"cu1", "u2"}, newRole \in {"consultant", "student"} :
        /\ ConsultantPool \ DOMAIN consultants # {} \/ profilesOf(user) # {}
        /\ PutUserRole(caller, user, newRole)

SpecAdmin == Init /\ [][NextAdmin]_vars

(***************************************************************************)
(* Bookings that live on while the price of their service is changed.      *)
(***************************************************************************)
NextSnapshot ==
  \/ \E caller \in {"u1"}, service \in {"s1"}, consultant \in {"c1"},
        date \in {SlotMinutes, 2 * SlotMinutes}, duration \in {SlotMinutes},
        timeSlot \in {"A"} :
        /\ Len(consultations) < MaxSnapshot
        /\ CreateBooking(caller, service, consultant, date, duration, timeSlot)
  \/ \E caller \in {"admin", "cu1"}, id \in {"s1"}, body \in {[price |-> p] : p \in {50, 70}} :
        PutService(caller, id, body)
  \/ \E caller \in {"u1"}, id \in 1..MaxSnapshot,
        date \in {SlotMinutes, 2 * SlotMinutes}, timeSlot \in {"A"}, reason \in {NoText} :
        /\ id \in Ids => Len(consultations[id].rescheduleHistory) < 1
        /\ Reschedule(caller, id, date, timeSlot, reason)
  \/ \E caller \in {"admin"}, id \in 1..MaxSnapshot,
        status \in {"confirmed", "completed", "cancelled"}, cancellationReason \in {NoText} :
        UpdateStatus(caller, id, status, cancellationReason)
  \/ \E caller \in {"u1"}, id \in 1..MaxSnapshot, rating \in {5}, feedback \in {"great"} :
        Feedback(caller, id, rating, feedback)

SpecSnapshot == Init /\ [][NextSnapshot]_vars

(***************************************************************************)
(* Bookings that are rated while the aggregate update may fail.            *)
(***************************************************************************)
NextStale ==
  \/ \E caller \in {"u1"}, service \in {"s1"}, consultant \in {"c1"},
        date \in {SlotMinutes}, duration \in {SlotMinutes}, timeSlot \in {"A"} :
        /\ Len(consultations) < MaxStale
        /\ CreateBooking(caller, service, consultant, date, duration, timeSlot)
  \/ \E caller \in {"admin"}, id \in 1..MaxStale,
        status \in {"confirmed", "completed"}, cancellationReason \in {NoText} :
        UpdateStatus(caller, id, status, cancellationReason)
  \/ \E caller \in {"u1", "u2"}, id \in 1..MaxStale,
        rating \in {0, 2, 5}, feedback \in {"great"}, fails \in BOOLEAN :
        FeedbackBestEffort(caller, id, rating, feedback, fails)

SpecStale == Init /\ [][NextStale]_vars

(***************************************************************************)
(* Marketplace services are booked and switched on and off.                *)
(***************************************************************************)
NextBooking ==
  \/ \E caller \in Clients, id \in ServiceIds \cup {"s3"}, date \in DateStrings,
        duration \in {2} :
        bookService(caller, id, date, duration)
  \/ \E caller \in {"cu1", "u1"}, id \in {"s1", "s3"},
        body \in {[status |-> st] : st \in {"active", "inactive"}} :
        updateService(caller, id, body)

SpecBooking == Init /\ [][NextBooking]_vars

(***************************************************************************)
(* Courses are created, updated and given a status by an admin.            *)
(***************************************************************************)
UpdateBodies ==
  {[price |-> 100, isPublished |-> TRUE], [price |-> 100, isPublished |-> FALSE],
   [price |-> 120], [price |-> 100, status |-> "published"],
   [price |-> 100, status |-> "archived"]}

NextCourse ==
  \/ \E caller \in {"i1", "u1"}, price \in {100}, isPublished \in BOOLEAN :
        /\ Len(courses) < MaxCourses
        /\ PostCourse(caller, price, isPublished)
  \/ \E caller \in {"i1", "u1", "admin"}, id \in 1..MaxCourses, body \in UpdateBodies :
        PutCourse(caller, id, body)
  \/ \E caller \in {"admin", "i1"}, id \in 1..MaxCourses, status \in CourseStatuses :
        PutCourseStatus(caller, id, status)

SpecCourse == Init /\ [][NextCourse]_vars

(***************************************************************************)
(* Bookings that are confirmed, completed and rated.                       *)
(***************************************************************************)
NextRating ==
  \/ \E caller \in {"u1"}, service \in ServiceIds, consultant \in ConsultantIds,
        date \in {SlotMinutes}, duration \in {SlotMinutes}, timeSlot \in {"A"} :
        /\ Len(consultations) < MaxRated
        /\ CreateBooking(caller, service, consultant, date, duration, timeSlot)
  \/ \E caller \in {"admin"}, id \in 1..MaxRated,
        status \in {"confirmed", "completed"}, cancellationReason \in {NoText} :
        UpdateStatus(caller, id, status, cancellationReason)
  \/ \E caller \in {"u1"}, id \in 1..MaxRated,
        rating \in Ratings, feedback \in {"great"} :
        Feedback(caller, id, rating, feedback)

SpecRating == Init /\ [][NextRating]_vars

(***************************************************************************)
(* SpecRace: create-booking as the store sees it.  The handler awaits the  *)
(* conflict query, then builds the document and awaits its save; requests  *)
(* of other callers run between the two.                                   *)
(***************************************************************************)
(***************************************************************************)
(* Enrolled users complete lessons one after the other and ask for the     *)
(* certificate.                                                            *)
(***************************************************************************)
NextProgress ==
  \/ \E caller \in {"i1"}, price \in {100}, isPublished \in {TRUE} :
        /\ Len(courses) < MaxProgress
        /\ PostCourse(caller, price, isPublished)
  \/ \E caller \in Clients, id \in 1..MaxProgress : PostEnroll(caller, id)
  \/ \E k \in 1..MaxProgress :
        /\ k <= Len(enrollments)
        /\ \E lessonId \in 1..Min(MaxLessons, Len(enrollments[k].completedLessons) + 1) :
              markLessonCompleted(k, lessonId)
  \/ \E k \in 1..MaxProgress : issueCertificate(k)

SpecProgress == Init /\ [][NextProgress]_vars

\* the handler up to and including the conflict query
CreateCheck(r, caller, service, consultant, date, duration, timeSlot) ==
  /\ \A q \in inflight : q.req # r
  /\ LET code == CreateRejectCode(service, consultant, date) IN
     IF code # 0
     THEN /\ Respond("create", code)
          /\ UNCHANGED inflight
     ELSE IF conflictingConsultation(consultant, date, timeSlot, 0) # {}
     THEN /\ Respond("create", 400)
          /\ UNCHANGED inflight
     ELSE /\ inflight' = inflight \cup
                 {[req |-> r,
                   doc |-> NewConsultation(caller, service, consultant, date, duration, timeSlot)]}
          /\ UNCHANGED response
  /\ UNCHANGED <<consultations, consultants, services, now, courses, enrollments, users, bookings>>

\* variant: the insert re-checks the slot in the same store operation
SaveAtomic(doc) ==
  IF conflictingConsultation(doc.consultant, doc.scheduledDate, doc.timeSlot, 0) # {}
  THEN consultations
  ELSE Append(consultations, doc)

\* `await consultation.save()': the collection after the insert
Save(doc) == Append(consultations, doc)

\* the rest of the handler: the save and the 201 response
CreateSave(q) ==
  /\ q \in inflight
  /\ consultations' = Save(q.doc)
  /\ inflight' = inflight \ {q}
  /\ Respond("create", 201)
  /\ UNCHANGED <<consultants, services, now, courses, enrollments, users, bookings>>

NextRace ==
  \/ \E r \in 1..MaxInflight, caller \in {"u1", "u2"}, service \in {"s1"},
        consultant \in ConsultantIds, date \in {0, 30, 60}, duration \in Durations,
        timeSlot \in {"A"} :
        /\ Len(consultations) + Cardinality(inflight) < MaxRace
        /\ CreateCheck(r, caller, service, consultant, date, duration, timeSlot)
  \/ \E q \in inflight : CreateSave(q)

SpecRace == Init /\ [][NextRace]_vars

(***************************************************************************)
(* C1.  No two distinct non-terminal consultations of one consultant have  *)
(* overlapping intervals [scheduledDate, scheduledDate + duration).        *)
(***************************************************************************)
Overlap(a, b) ==
  /\ a.scheduledDate < b.scheduledDate + b.duration
  /\ b.scheduledDate < a.scheduledDate + a.duration

C1_NoOverlap ==
  \A i, j \in Ids :
    (/\ i # j
     /\ consultations[i].consultant = consultations[j].consultant
     /\ consultations[i].status \in NonTerminal
     /\ consultations[j].status \in NonTerminal)
    => ~Overlap(consultations[i], consultations[j])

(***************************************************************************)
(* C2.  The conflict check and the write of create-booking are separate    *)
(* store operations: a request that has passed the check writes its        *)
(* document whatever the collection holds by then, so two interleaved      *)
(* requests for one consultant, date and slot both end up stored as        *)
(* scheduled.                                                              *)
(***************************************************************************)
C2_WriteIgnoresLaterBookings ==
  [][\A q \in inflight :
        q \notin inflight' =>
          /\ consultations' = Append(consultations, q.doc)
          /\ response' = [op |-> "create", code |-> 201]]_vars

C2_DoubleBooked ==
  \E i, j \in Ids :
    /\ i # j
    /\ consultations[i].consultant = consultations[j].consultant
    /\ consultations[i].scheduledDate = consultations[j].scheduledDate
    /\ consultations[i].timeSlot = consultations[j].timeSlot
    /\ consultations[i].status = "scheduled"
    /\ consultations[j].status = "scheduled"

(***************************************************************************)
(* C3.  A status update whose (current, requested) pair is not in the      *)
(* transition table is rejected and leaves the stored consultation as it   *)
(* was; scheduled -> completed is such a pair.                             *)
(***************************************************************************)
TransitionTable ==
  {<<"scheduled", "confirmed">>, <<"scheduled", "cancelled">>,
   <<"confirmed", "completed">>, <<"confirmed", "cancelled">>, <<"confirmed", "no-show">>,
   <<"rescheduled", "confirmed">>, <<"rescheduled", "cancelled">>}

Accepted == response'.code \in {200, 201}

C3_IllegalTransitionRejected ==
  /\ [](\A caller \in Users, id \in Ids, status \in Statuses :
          <<consultations[id].status, status>> \notin TransitionTable
            => StatusRejectCode(caller, id, status) # 0)
  /\ [][response'.op = "status" =>
          IF Accepted
          THEN \E id \in Ids :
                 /\ <<consultations[id].status, consultations'[id].status>>
                      \in TransitionTable
                 /\ \A other \in Ids \ {id} :
                      consultations'[other] = consultations[other]
          ELSE consultations' = consultations]_vars

C3_ScheduledToCompletedRejected ==
  /\ response = [op |-> "status", code |-> 400]
  /\ Ids # {}
  /\ \A id \in Ids : consultations[id].status = "scheduled"

(***************************************************************************)
(* C4.  Terminal statuses are absorbing: once a consultation is completed, *)
(* cancelled or no-show, no status, reschedule or feedback request changes *)
(* its status, scheduledDate or timeSlot.                                  *)
(***************************************************************************)
C4_TerminalAbsorbing ==
  [][\A id \in Ids :
        consultations[id].status \in Terminal =>
          /\ id \in DOMAIN consultations'
          /\ consultations'[id].status = consultations[id].status
          /\ consultations'[id].scheduledDate = consultations[id].scheduledDate
          /\ consultations'[id].timeSlot = consultations[id].timeSlot]_vars

C4_RequestOnTerminal ==
  /\ response \in {[op |-> "status", code |-> 400], [op |-> "reschedule", code |-> 400]}
  /\ Ids # {}
  /\ \A id \in Ids : consultations[id].status \in Terminal

IsPrefix(h, g) == Len(h) <= Len(g) /\ SubSeq(g, 1, Len(h)) = h

C9_HistoryAppendOnly ==
  [][/\ \A id \in Ids :
          /\ id \in DOMAIN consultations'
          /\ IsPrefix(consultations[id].rescheduleHistory,
                      consultations'[id].rescheduleHistory)
     /\ response'.op = "reschedule" =>
          IF Accepted
          THEN \E id \in Ids :
                 /\ Len(consultations'[id].rescheduleHistory)
                      = Len(consultations[id].rescheduleHistory) + 1
                 /\ \A other \in Ids \ {id} :
                      consultations'[other].rescheduleHistory
                        = consultations[other].rescheduleHistory
          ELSE \A id \in Ids :
                 consultations'[id].rescheduleHistory
                   = consultations[id].rescheduleHistory]_vars

C9_TwiceRescheduled ==
  /\ response = [op |-> "reschedule", code |-> 200]
  /\ \E id \in Ids : Len(consultations[id].rescheduleHistory) = 2

(***************************************************************************)
(* C10.  As stated: a reschedule request by an authorized caller with a    *)
(* future date and a free slot passes the handler's checks exactly when    *)
(* the consultation is scheduled, confirmed or rescheduled.                *)
(***************************************************************************)
FreeSlot(id, date) ==
  \A k \in Ids \ {id} :
    (/\ consultations[k].consultant = consultations[id].consultant
     /\ consultations[k].status \in {"scheduled", "confirmed"})
    => ~(date < consultations[k].endTime
         /\ consultations[k].scheduledDate < date + consultations[id].duration)

RescheduleRequests ==
  {q \in [caller : Users, id : Ids, date : Dates, timeSlot : TimeSlots] :
     /\ (q.caller = consultations[q.id].user \/ role(q.caller) = "admin")
     /\ q.date > now
     /\ FreeSlot(q.id, q.date)}

C10_RescheduledCanBeRescheduled ==
  \A q \in RescheduleRequests :
    RescheduleRejectCode(q.caller, q.id, q.date, q.timeSlot) = 0
      <=> consultations[q.id].status \in {"scheduled", "confirmed", "rescheduled"}

(***************************************************************************)
(* C10, amended.  Such a request succeeds exactly when the consultation is *)
(* scheduled or confirmed, and then sets the status to rescheduled; from   *)
(* rescheduled, completed, cancelled or no-show it is rejected, and a      *)
(* rejected reschedule leaves the record unchanged.                        *)
(***************************************************************************)
C10_OnlyScheduledOrConfirmed ==
  /\ [](\A q \in RescheduleRequests :
          RescheduleRejectCode(q.caller, q.id, q.date, q.timeSlot) = 0
            <=> consultations[q.id].status \in {"scheduled", "confirmed"})
  /\ [][response'.op = "reschedule" =>
          IF Accepted
          THEN \E id \in Ids :
                 /\ consultations[id].status \in {"scheduled", "confirmed"}
                 /\ consultations'[id].status = "rescheduled"
                 /\ \A other \in Ids \ {id} :
                      consultations'[other] = consultations[other]
          ELSE consultations' = consultations]_vars

C10_RescheduledThenRejected ==
  /\ response = [op |-> "reschedule", code |-> 400]
  /\ Ids # {}
  /\ \A id \in Ids :
       /\ consultations[id].status = "rescheduled"
       /\ FreeSlot(id, 2 * SlotMinutes)

(***************************************************************************)
(* C8.  For every consultant with N >= 1 rated consultations, totalRatings *)
(* is N and the stored rating is the arithmetic mean of those N ratings    *)
(* rounded to one decimal place (the nearest tenth, a tie going up); a     *)
(* consultant without rated consultations keeps the initial aggregate.     *)
(***************************************************************************)
RatedOf(cid) ==
  {k \in Ids : consultations[k].consultant = cid /\ consultations[k].feedbackProvided}

C8_AggregateIsRoundedMean ==
  \A cid \in ConsultantIds :
    LET n == Cardinality(RatedOf(cid))
        sum == SumRatings(consultations, RatedOf(cid))
        avg == consultants[cid].rating
    IN IF n = 0
       THEN consultants[cid].rating = 0 /\ consultants[cid].totalRatings = 0
       ELSE /\ consultants[cid].totalRatings = n
            /\ 2 * n * avg <= 20 * sum + n
            /\ 20 * sum + n < 2 * n * (avg + 1)

C8_FourRatingsTieRoundedUp ==
  /\ response = [op |-> "feedback", code |-> 200]
  /\ \E cid \in ConsultantIds :
       /\ Cardinality(RatedOf(cid)) = 4
       /\ SumRatings(consultations, RatedOf(cid)) = 17
       /\ consultants[cid].rating = 43
       /\ consultants[cid].totalRatings = 4

(***************************************************************************)
(* C5.  For every (user, course) pair at most one enrollment with status   *)
(* active or completed exists; an enroll request by a user who already has *)
(* such an enrollment in the course is rejected by either handler, and a   *)
(* rejected enroll request creates no enrollment record.                   *)
(***************************************************************************)
ActiveOrCompleted(u, c) ==
  {k \in DOMAIN enrollments :
     /\ enrollments[k].user = u
     /\ enrollments[k].course = c
     /\ enrollments[k].status \in {"active", "completed"}}

C5_OneEnrollmentPerPair ==
  /\ [](\A u \in Users, c \in CourseIds : Cardinality(ActiveOrCompleted(u, c)) <= 1)
  /\ [](\A u \in Users, c \in CourseIds :
          ActiveOrCompleted(u, c) # {}
            => EnrollRejectCode(u, c) # 0 /\ enrollInCourseRejectCode(u, c) # 0)
  /\ [][response'.op = "enroll" /\ ~Accepted => enrollments' = enrollments]_vars

C5_DuplicateEnrollRejected ==
  /\ response = [op |-> "enroll", code |-> 400]
  /\ Len(courses) = MaxCourses
  /\ \A c \in CourseIds : courses[c].isPublished /\ courses[c].status = "published"
  /\ \A c \in CourseIds : \E u \in Clients : ActiveOrCompleted(u, c) # {}

(***************************************************************************)
(* C6.  A successful enroll request adds one enrollment that records the   *)
(* course's price as the amount paid and increases the course's enrollment *)
(* counter by exactly 1; a rejected enroll request leaves every course's   *)
(* counter unchanged.                                                      *)
(***************************************************************************)
AmountRecorded(e) == IF e.amountPaid # NoAmount THEN e.amountPaid ELSE e.price

EnrollmentCounter(c) == c.enrollmentCount + c.studentsEnrolled

C6_EnrollCountsAndRecordsPrice ==
  [][response'.op = "enroll" =>
       IF Accepted
       THEN /\ Len(enrollments') = Len(enrollments) + 1
            /\ LET e == enrollments'[Len(enrollments')] IN
                 /\ e.course \in CourseIds
                 /\ AmountRecorded(e) = courses[e.course].price
                 /\ EnrollmentCounter(courses'[e.course])
                      = EnrollmentCounter(courses[e.course]) + 1
                 /\ \A other \in CourseIds \ {e.course} :
                      courses'[other] = courses[other]
       ELSE courses' = courses]_vars

(***************************************************************************)
(* C11.  The history entry appended by a successful reschedule has         *)
(* previousDate equal to the scheduledDate the consultation had before the *)
(* request, newDate equal to the requested date, rescheduledBy equal to    *)
(* the acting user (the client or an admin), and reason equal to the       *)
(* supplied reason or 'No reason provided'.                                *)
(***************************************************************************)
C11_EntryRecordsPreviousDate ==
  [][(response'.op = "reschedule" /\ Accepted) =>
       \E id \in Ids :
         /\ Len(consultations'[id].rescheduleHistory)
              = Len(consultations[id].rescheduleHistory) + 1
         /\ LET entry == consultations'[id].rescheduleHistory[
                            Len(consultations'[id].rescheduleHistory)] IN
              /\ entry.previousDate = consultations[id].scheduledDate
              /\ entry.newDate = consultations'[id].scheduledDate
              /\ entry.rescheduledBy \in {consultations[id].user} \cup Admins
              /\ entry.reason \in (Reasons \ {NoText}) \cup {"No reason provided"}]_vars

(***************************************************************************)
(* C12.  Every accepted create-booking stores exactly one new consultation *)
(* whose service exists and is active, whose consultant exists and is      *)
(* active, whose service is offered by that consultant, whose date is      *)
(* strictly in the future and whose consultant has no scheduled or         *)
(* confirmed booking at the same date and slot; every rejected create      *)
(* leaves the stored consultations unchanged.                              *)
(***************************************************************************)
C12_DefectiveCreateRejected ==
  [][response'.op = "create" =>
       IF Accepted
       THEN /\ Len(consultations') = Len(consultations) + 1
            /\ SubSeq(consultations', 1, Len(consultations)) = consultations
            /\ LET doc == consultations'[Len(consultations')] IN
                 /\ doc.service \in DOMAIN services
                 /\ services[doc.service].isActive
                 /\ doc.consultant \in DOMAIN consultants
                 /\ consultants[doc.consultant].isActive
                 /\ services[doc.service].consultant = doc.consultant
                 /\ doc.scheduledDate > now
                 /\ \A k \in Ids :
                      ~(/\ consultations[k].consultant = doc.consultant
                        /\ consultations[k].scheduledDate = doc.scheduledDate
                        /\ consultations[k].timeSlot = doc.timeSlot
                        /\ consultations[k].status \in {"scheduled", "confirmed"})
       ELSE consultations' = consultations]_vars

C12_CreateOnInactiveServiceRejected ==
  /\ response = [op |-> "create", code |-> 404]
  /\ ~services["s1"].isActive
  /\ \A c \in DOMAIN consultants : consultants[c].isActive
  /\ Len(consultations) = 1

(***************************************************************************)
(* C13.  A consultation is created only for a consultant who is both       *)
(* active and approved: the consultant named by an accepted create-booking *)
(* has isActive true and approvalStatus approved.                          *)
(***************************************************************************)
C13_OnlyApprovedConsultantsBooked ==
  [][(response'.op = "create" /\ Accepted) =>
       LET doc == consultations'[Len(consultations')] IN
         /\ doc.consultant \in DOMAIN consultants
         /\ consultants[doc.consultant].isActive
         /\ consultants[doc.consultant].approvalStatus = "approved"]_vars

(***************************************************************************)
(* C14.  The amount of a consultation is a snapshot: an accepted create    *)
(* stores the price the service has at that moment, and no later step      *)
(* (service price update, reschedule, status update, feedback) changes the *)
(* amount of a stored consultation.                                        *)
(***************************************************************************)
C14_AmountIsSnapshot ==
  [][/\ \A id \in Ids :
          /\ id \in DOMAIN consultations'
          /\ consultations'[id].amount = consultations[id].amount
     /\ (response'.op = "create" /\ Accepted) =>
          LET doc == consultations'[Len(consultations')] IN
            doc.amount = services[doc.service].price]_vars

C14_PriceChangedAfterBooking ==
  \E id \in Ids :
    /\ consultations[id].amount = 50
    /\ services[consultations[id].service].price = 70
    /\ consultations[id].status = "completed"
    /\ consultations[id].feedbackProvided
    /\ Len(consultations[id].rescheduleHistory) = 1

(***************************************************************************)
(* C15.  A status update is applied only for a permitted caller: for the   *)
(* targets confirmed, completed and no-show the consultation's consultant  *)
(* or an admin, for cancelled also the consultation's client.  A request   *)
(* by any other caller for an existing consultation is answered 403, and a *)
(* rejected request leaves the consultations unchanged.                    *)
(***************************************************************************)
Permitted(caller, c, status) ==
  \/ role(caller) = "admin"
  \/ consultants[c.consultant].user = caller
  \/ status = "cancelled" /\ c.user = caller

C15_OnlyPermittedCallers ==
  /\ [](\A caller \in Users, id \in Ids, status \in RequestableStatuses :
          ~Permitted(caller, consultations[id], status)
            => StatusRejectCode(caller, id, status) = 403)
  /\ [][response'.op = "status" /\ ~Accepted => consultations' = consultations]_vars

C15_UnauthorizedRejected ==
  /\ response = [op |-> "status", code |-> 403]
  /\ \E id \in Ids : consultations[id].status = "confirmed"

(***************************************************************************)
(* C16.  Every cancelled consultation carries the cancelling actor and the *)
(* cancellation timestamp, whether or not a reason was supplied.           *)
(***************************************************************************)
C16_CancelledHasActorAndTime ==
  \A id \in Ids :
    consultations[id].status = "cancelled"
      => /\ consultations[id].cancelledBy # NoUser
         /\ consultations[id].cancelledAt # NoTime

(***************************************************************************)
(* C17.  A failure of the aggregate recomputation does not undo feedback:  *)
(* a feedback request is never answered with a server error on account of *)
(* the aggregate, an accepted request stores rating, feedback and the      *)
(* feedbackProvided flag on one consultation, stored feedback is never     *)
(* taken back, and the only thing a failure leaves behind is a stale       *)
(* aggregate on the consultant.                                            *)
(***************************************************************************)
C17_FeedbackSurvivesAggregateFailure ==
  [][/\ response'.op = "feedback" =>
          /\ response'.code \in {200, 400, 403, 404}
          /\ IF Accepted
             THEN \E id \in Ids :
                    /\ ~consultations[id].feedbackProvided
                    /\ consultations'[id].feedbackProvided
                    /\ consultations'[id].rating \in Ratings
                    /\ consultants' \in
                         {consultants,
                          updateConsultantRating(consultations', consultations[id].consultant)}
             ELSE consultations' = consultations /\ consultants' = consultants
     /\ \A id \in Ids :
          consultations[id].feedbackProvided =>
            /\ consultations'[id].feedbackProvided
            /\ consultations'[id].rating = consultations[id].rating
            /\ consultations'[id].feedback = consultations[id].feedback]_vars

C17_StaleAggregate ==
  /\ response = [op |-> "feedback", code |-> 200]
  /\ \E id \in Ids :
       /\ consultations[id].feedbackProvided
       /\ consultations[id].rating = 5
       /\ consultants[consultations[id].consultant].totalRatings = 0

(***************************************************************************)
(* C18.  Under sequential bookService requests every service has at most   *)
(* one pending or confirmed ServiceBooking per date; an accepted request   *)
(* stores one booking for an active service that had no pending or         *)
(* confirmed booking on that date, and a rejected request stores nothing.  *)
(***************************************************************************)
BookedOn(service, day) ==
  {k \in DOMAIN bookings :
     /\ bookings[k].service = service
     /\ bookings[k].date = day
     /\ bookings[k].status \in {"pending", "confirmed"}}

C18_OneBookingPerServiceAndDate ==
  /\ [](\A service \in DOMAIN services, day \in {parseDate(d) : d \in DateStrings} :
          Cardinality(BookedOn(service, day)) <= 1)
  /\ [][response'.op = "book" =>
          IF Accepted
          THEN /\ Len(bookings') = Len(bookings) + 1
               /\ SubSeq(bookings', 1, Len(bookings)) = bookings
               /\ LET b == bookings'[Len(bookings')] IN
                    /\ b.service \in DOMAIN services
                    /\ services[b.service].status = "active"
                    /\ BookedOn(b.service, b.date) = {}
          ELSE bookings' = bookings]_vars

C18_SecondBookingRejected ==
  /\ response = [op |-> "book", code |-> 400]
  /\ \A s \in DOMAIN services : services[s].status = "active"
  /\ \E k \in DOMAIN bookings : bookings[k].status = "pending"

(***************************************************************************)
(* C19.  isPublished is in sync with status: after any sequence of course  *)
(* create, course update and admin course-status operations, a course has  *)
(* isPublished true if and only if its status is published.                *)
(***************************************************************************)
C19_PublishedInSync ==
  \A c \in CourseIds : courses[c].isPublished <=> (courses[c].status = "published")

(***************************************************************************)
(* C20.  An enrollment whose progress.overall has reached 100 is no longer *)
(* active: the lesson completion that brought it to 100 moved its status   *)
(* from active to completed.                                               *)
(***************************************************************************)
C20_FullProgressIsCompleted ==
  \A k \in 1..Len(enrollments) :
    enrollments[k].overall = 100 => enrollments[k].status # "active"

(***************************************************************************)
(* The enroll route as the store sees it: every await is a step of its    *)
(* own, and the steps of two requests interleave.  A request in flight     *)
(* holds the course document it loaded.                                    *)
(***************************************************************************)
\* `const course = await Course.findById(req.params.id)' and the checks on
\* the loaded document
EnrollFindCourse(r, caller, id) ==
  /\ \A q \in inflight : q.req # r
  /\ IF id \notin CourseIds
     THEN /\ Respond("enroll", 404)
          /\ UNCHANGED inflight
     ELSE IF ~courses[id].isPublished \/ courses[id].status # "published"
     THEN /\ Respond("enroll", 400)
          /\ UNCHANGED inflight
     ELSE /\ inflight' = inflight \cup
                 {[req |-> r, user |-> caller, id |-> id, course |-> courses[id],
                   pc |-> "findOne"]}
          /\ UNCHANGED response
  /\ UNCHANGED <<consultations, consultants, services, now, courses, enrollments, users, bookings>>

\* `await Enrollment.findOne({user, course, status: {$in: [...]}})'
EnrollFindExisting(q) ==
  /\ q \in inflight
  /\ q.pc = "findOne"
  /\ IF existingEnrollment(q.user, q.id, {"active", "completed"}) # {}
     THEN /\ Respond("enroll", 400)
          /\ inflight' = inflight \ {q}
     ELSE /\ inflight' = (inflight \ {q}) \cup {[q EXCEPT !.pc = "save"]}
          /\ UNCHANGED response
  /\ UNCHANGED <<consultations, consultants, services, now, courses, enrollments, users, bookings>>

\* `await enrollment.save()': the insert, refused by the unique index when
\* the pair already has a document (the catch block answers 500)
EnrollSave(q) ==
  /\ q \in inflight
  /\ q.pc = "save"
  /\ IF DuplicateKey(q.user, q.id)
     THEN /\ Respond("enroll", 500)
          /\ inflight' = inflight \ {q}
          /\ UNCHANGED enrollments
     ELSE /\ enrollments' = Append(enrollments,
               NewEnrollment(q.user, q.id, q.course.price, NoAmount))
          /\ inflight' = (inflight \ {q}) \cup {[q EXCEPT !.pc = "count"]}
          /\ UNCHANGED response
  /\ UNCHANGED <<consultations, consultants, services, now, courses, users, bookings>>

\* variant: the counter is incremented in the store ($inc)
CountSavedAtomic(q) ==
  [courses EXCEPT ![q.id].enrollmentCount = @ + 1]

\* `course.enrollmentCount += 1; await course.save()': the value computed
\* from the loaded document is written
CountSaved(q) ==
  [courses EXCEPT ![q.id].enrollmentCount = q.course.enrollmentCount + 1]

\* the save of a course that is no longer stored fails (the catch block
\* answers 500); otherwise the counter is written and the answer is 201

EnrollCount(q) ==
  /\ q \in inflight
  /\ q.pc = "count"
  /\ IF q.id \notin CourseIds
     THEN /\ Respond("enroll", 500)
          /\ UNCHANGED courses
     ELSE /\ courses' = CountSaved(q)
          /\ Respond("enroll", 201)
  /\ inflight' = inflight \ {q}
  /\ UNCHANGED <<consultations, consultants, services, now, enrollments, users, bookings>>

NextEnrollRace ==
  \/ \E caller \in {"i1"}, price \in {100}, isPublished \in BOOLEAN :
        /\ Len(courses) < MaxEnrollRace
        /\ PostCourse(caller, price, isPublished)
  \/ \E r \in 1..MaxEnrollRace, caller \in Clients, id \in 1..MaxEnrollRace :
        EnrollFindCourse(r, caller, id)
  \/ \E q \in inflight : EnrollFindExisting(q)
  \/ \E q \in inflight : EnrollSave(q)
  \/ \E q \in inflight : EnrollCount(q)

SpecEnrollRace == Init /\ [][NextEnrollRace]_vars

EnrollmentsOf(c) == {k \in DOMAIN enrollments : enrollments[k].course = c}

(***************************************************************************)
(* C21.  The enroll route updates the course's counter by read-modify-     *)
(* write: the request that finishes writes the counter of the document it  *)
(* loaded plus one, whatever the stored counter has become meanwhile, and   *)
(* the counter never exceeds the number of enrollments of the course.       *)
(* The witness is the lost update: no request in flight, two enrollments    *)
(* of distinct users for one course, and a counter of 1.                    *)
(***************************************************************************)
C21_CounterIsReadModifyWrite ==
  /\ [](\A c \in CourseIds : courses[c].enrollmentCount <= Cardinality(EnrollmentsOf(c)))
  /\ [][\A q \in inflight :
          (q.pc = "count" /\ q \notin inflight')
            => courses'[q.id].enrollmentCount = q.course.enrollmentCount + 1]_vars

C21_LostUpdate ==
  /\ inflight = {}
  /\ \E c \in CourseIds :
       /\ courses[c].enrollmentCount = 1
       /\ \E j, k \in EnrollmentsOf(c) : enrollments[j].user # enrollments[k].user

(***************************************************************************)
(* The role-change route as the store sees it, one step per await.         *)
(***************************************************************************)
NoProfile == "none"

\* the new profile of `new Consultant({...})'
NewProfile(user) ==
  [user |-> user, isActive |-> TRUE, approvalStatus |-> "approved",
   rating |-> 0, totalRatings |-> 0]

\* validation and `await User.findById(req.params.id)'
RoleFindUser(r, caller, user, newRole) ==
  /\ \A q \in inflight : q.req # r
  /\ IF role(caller) # "admin"
     THEN Respond("role", 403) /\ UNCHANGED inflight
     ELSE IF newRole \notin Roles
     THEN Respond("role", 400) /\ UNCHANGED inflight
     ELSE IF user \notin DOMAIN users
     THEN Respond("role", 404) /\ UNCHANGED inflight
     ELSE /\ inflight' = inflight \cup
               {[req |-> r, user |-> user, role |-> newRole, existingConsultant |-> NoProfile,
                 pc |-> IF newRole = "consultant" THEN "findOne" ELSE "saveUser"]}
          /\ UNCHANGED response
  /\ UNCHANGED <<consultations, consultants, services, now, courses, enrollments, users, bookings>>

\* `await Consultant.findOne({ user: user._id })'
RoleFindConsultant(q) ==
  /\ q \in inflight
  /\ q.pc = "findOne"
  /\ inflight' = (inflight \ {q}) \cup
       {[q EXCEPT !.pc = "saveConsultant",
                  !.existingConsultant =
                     IF profilesOf(q.user) = {} THEN NoProfile
                     ELSE CHOOSE c \in profilesOf(q.user) : TRUE]}
  /\ UNCHANGED <<consultations, consultants, services, now, response, courses, enrollments, users, bookings>>

\* `await consultant.save()' of the new profile, or
\* `await existingConsultant.save()' of the one that was found
ProfileSaved(q) ==
  IF q.existingConsultant = NoProfile
  THEN LET id == CHOOSE c \in ConsultantPool \ DOMAIN consultants : TRUE
       IN consultants @@ (id :> NewProfile(q.user))
  ELSE [consultants EXCEPT ![q.existingConsultant] = Approved(@, "approved")]

RoleSaveConsultant(q) ==
  /\ q \in inflight
  /\ q.pc = "saveConsultant"
  /\ consultants' = ProfileSaved(q)
  /\ inflight' = (inflight \ {q}) \cup {[q EXCEPT !.pc = "saveUser"]}
  /\ UNCHANGED <<consultations, services, now, response, courses, enrollments, users, bookings>>

\* `user.role = role; await user.save()' and the response
RoleSaveUser(q) ==
  /\ q \in inflight
  /\ q.pc = "saveUser"
  /\ users' = [users EXCEPT ![q.user].role = q.role]
  /\ inflight' = inflight \ {q}
  /\ Respond("role", 200)
  /\ UNCHANGED <<consultations, consultants, services, now, courses, enrollments, bookings>>

NextRoleRace ==
  \/ \E r \in 1..MaxRoleRace, caller \in {"admin", "u1"}, user \in {"u1", "u2", "cu1"},
        newRole \in {"consultant", "student"} :
        RoleFindUser(r, caller, user, newRole)
  \/ \E q \in inflight : RoleFindConsultant(q)
  \/ \E q \in inflight :
        /\ q.existingConsultant = NoProfile => ConsultantPool \ DOMAIN consultants # {}
        /\ RoleSaveConsultant(q)
  \/ \E q \in inflight : RoleSaveUser(q)

SpecRoleRace == Init /\ [][NextRoleRace]_vars

(***************************************************************************)
(* C23.  Consultant profiles are linked 1:1 to users: whatever role-change *)
(* requests are made, one after the other or interleaved, no user has more *)
(* than one Consultant profile.                                            *)
(***************************************************************************)
C23_OneProfilePerUser ==
  \A u \in Users : Cardinality(profilesOf(u)) <= 1

(***************************************************************************)
(* GET /consultations/consultant/availability.  A time label "HH:MM" is    *)
(* the pair <<hour, minute>>: two labels are equal as strings exactly when *)
(* their hours and minutes are.                                            *)
(***************************************************************************)
DayMinutes == 1440
startHour == 9
endHour == 17

\* date.toTimeString().slice(0, 5)
toTimeString(date) == <<(date % DayMinutes) \div 60, date % 60>>

\* the day of a date: what the $gte startOfDay / $lte endOfDay filter compares
dayOf(date) == date \div DayMinutes

bookedConsultations(consultantId, date) ==
  {i \in Ids :
     /\ consultations[i].consultant = consultantId
     /\ dayOf(consultations[i].scheduledDate) = dayOf(date)
     /\ consultations[i].status \in {"scheduled", "confirmed", "rescheduled"}}

generateAvailableTimeSlots(booked) ==
  {timeString \in {<<hour, minute>> : hour \in startHour..(endHour - 1), minute \in {0, 30}} :
     ~\E i \in booked : toTimeString(consultations[i].scheduledDate) = timeString}

GetAvailability(consultantId, date) ==
  /\ response' = [op |-> "availability", code |-> 200,
                  consultantId |-> consultantId, date |-> date,
                  availableSlots |->
                    generateAvailableTimeSlots(bookedConsultations(consultantId, date))]
  /\ UNCHANGED <<consultations, consultants, services, now, inflight, courses, enrollments, users, bookings>>

\* the working hours of the first day, in minutes
WorkingDates == {startHour * 60 + SlotMinutes * i : i \in 0..MaxAvailability}

NextAvailability ==
  \/ \E caller \in {"u1"}, service \in {"s1"}, consultant \in {"c1"},
        date \in WorkingDates, duration \in Durations, timeSlot \in TimeSlots :
        /\ Len(consultations) < MaxAvailability
        /\ CreateBooking(caller, service, consultant, date, duration, timeSlot)
  \/ \E caller \in {"admin"}, id \in 1..MaxAvailability,
        status \in {"confirmed", "cancelled"}, cancellationReason \in {NoText} :
        UpdateStatus(caller, id, status, cancellationReason)
  \/ \E consultantId \in ConsultantIds, date \in {startHour * 60} :
        GetAvailability(consultantId, date)

SpecAvailability == Init /\ [][NextAvailability]_vars

\* the minute of the day's date that a label names
labelDate(date, timeString) ==
  dayOf(date) * DayMinutes + timeString[1] * 60 + timeString[2]

(***************************************************************************)
(* C22.  The availability answer holds only free labels: no label of       *)
(* availableSlots lies in the interval [scheduledDate, scheduledDate +      *)
(* duration) of a scheduled, confirmed or rescheduled consultation of the  *)
(* consultant on that date.                                                *)
(***************************************************************************)
C22_AvailableSlotsAreFree ==
  response.op = "availability" =>
    \A t \in response.availableSlots :
      \A i \in bookedConsultations(response.consultantId, response.date) :
        ~(/\ consultations[i].scheduledDate <= labelDate(response.date, t)
          /\ labelDate(response.date, t)
               < consultations[i].scheduledDate + consultations[i].duration)

SameSlot(a, b) ==
  /\ a.consultant = b.consultant
  /\ a.scheduledDate = b.scheduledDate
  /\ a.timeSlot = b.timeSlot

(***************************************************************************)
(* C24.  With requests executed one after the other, no two distinct       *)
(* consultations of one consultant whose statuses are scheduled, confirmed *)
(* or rescheduled have the same scheduledDate and timeSlot.                *)
(***************************************************************************)
C24_NoSharedSlotNonTerminal ==
  \A i, j \in Ids :
    (/\ i # j
     /\ consultations[i].status \in NonTerminal
     /\ consultations[j].status \in NonTerminal)
    => ~SameSlot(consultations[i], consultations[j])

(***************************************************************************)
(* C28.  With requests executed one after the other, no two distinct       *)
(* consultations of one consultant whose statuses are scheduled or         *)
(* confirmed have the same scheduledDate and timeSlot.                     *)
(***************************************************************************)
C28_NoSharedSlotScheduledOrConfirmed ==
  \A i, j \in Ids :
    (/\ i # j
     /\ consultations[i].status \in {"scheduled", "confirmed"}
     /\ consultations[j].status \in {"scheduled", "confirmed"})
    => ~SameSlot(consultations[i], consultations[j])

(***************************************************************************)
(* The consultation controller of the request flow: a client requests a    *)
(* consultation, which is stored as pending and assigned to a consultant   *)
(* user, and the consultant updates it.  Its documents live in the same    *)
(* collection and carry the fields this controller and the Consultation    *)
(* model's methods read and write.                                         *)
(***************************************************************************)
ConsultationStatusEnum == {"pending", "confirmed", "completed", "cancelled", "rescheduled"}
DurationEnum == {30, 60, 90, 120}

\* User.find({role: 'consultant', ...})
availableConsultants == {u \in DOMAIN users : role(u) = "consultant"}

requestConsultation(caller, duration) ==
  /\ IF availableConsultants = {}
     THEN /\ Respond("request", 400)
          /\ UNCHANGED consultations
     ELSE IF duration \notin DurationEnum
     THEN /\ Respond("request", 500)
          /\ UNCHANGED consultations
     ELSE /\ \E assignedConsultant \in availableConsultants :
               consultations' = Append(consultations,
                 [client |-> caller, consultant |-> assignedConsultant,
                  duration |-> duration, status |-> "pending",
                  scheduledDate |-> NoTime, price |-> NoAmount,
                  confirmedAt |-> NoTime, completedAt |-> NoTime, cancelledAt |-> NoTime])
          /\ Respond("request", 201)
  /\ UNCHANGED <<consultants, services, now, inflight, courses, enrollments, users, bookings>>

\* the timestamp path that goes with a status
stampOf(status) ==
  IF status = "confirmed" THEN {"confirmedAt"}
  ELSE IF status = "completed" THEN {"completedAt"}
  ELSE IF status = "cancelled" THEN {"cancelledAt"}
  ELSE {}

\* updateData: the status, the truthy optional fields of the body and the
\* timestamp of the status
updateData(body) ==
  [f \in {"status"}
         \cup {g \in DOMAIN body \cap {"scheduledDate", "price"} : g = "price" => body[g] # 0}
         \cup stampOf(body.status)
     |-> IF f \in DOMAIN body THEN body[f] ELSE now]

\* Consultation.findByIdAndUpdate(id, updateData, {new: true, runValidators: true})
StatusWritten(doc, body) == Merge(doc, updateData(body))

updateConsultationStatus(caller, id, body) ==
  /\ IF id \notin Ids
     THEN /\ Respond("status", 404)
          /\ UNCHANGED consultations
     ELSE IF consultations[id].consultant # caller
     THEN /\ Respond("status", 403)
          /\ UNCHANGED consultations
     ELSE IF body.status \notin ConsultationStatusEnum
     THEN /\ Respond("status", 500)
          /\ UNCHANGED consultations
     ELSE /\ consultations' = [consultations EXCEPT ![id] = StatusWritten(@, body)]
          /\ Respond("status", 200)
  /\ UNCHANGED <<consultants, services, now, inflight, courses, enrollments, users, bookings>>

StatusBodies ==
  {[status |-> s] : s \in ConsultationStatusEnum \cup {"no-show"}}
    \cup {[status |-> s, scheduledDate |-> SlotMinutes] : s \in {"confirmed", "pending"}}
    \cup {[status |-> s, price |-> p] : s \in {"confirmed", "pending"}, p \in {0, 70}}

NextPending ==
  \/ \E caller \in {"u1"}, duration \in {60, 45} :
        /\ Len(consultations) < MaxPending
        /\ requestConsultation(caller, duration)
  \/ \E caller \in {"cu1", "cu2", "u1"}, id \in 1..MaxPending, body \in StatusBodies :
        updateConsultationStatus(caller, id, body)

SpecPending == Init /\ [][NextPending]_vars

(***************************************************************************)
(* C26.  In the request-flow controller a completed or cancelled           *)
(* consultation is final: no later updateConsultationStatus request, its   *)
(* consultant's included, changes its status, scheduledDate or price.      *)
(***************************************************************************)
C26_TerminalKept ==
  [][\A i \in Ids :
       consultations[i].status \in {"completed", "cancelled"}
         => /\ consultations'[i].status = consultations[i].status
            /\ consultations'[i].scheduledDate = consultations[i].scheduledDate
            /\ consultations'[i].price = consultations[i].price]_vars

(***************************************************************************)
(* Consultation.hasTimeConflict, asked of stored consultations.            *)
(***************************************************************************)
\* virtual endTime: scheduledDate + duration minutes
endTimeOf(doc) == doc.scheduledDate + doc.duration

\* the findOne of hasTimeConflict; a document without a scheduledDate
\* matches no date range
existingConsultation(id) ==
  {j \in Ids :
     /\ consultations[j].consultant = consultations[id].consultant
     /\ consultations[j].scheduledDate # NoTime
     /\ consultations[j].scheduledDate < endTimeOf(consultations[id])
     /\ consultations[j].scheduledDate
          > consultations[id].scheduledDate - consultations[id].duration
     /\ consultations[j].status \in {"confirmed", "pending"}
     /\ j # id}

\* consultation.hasTimeConflict(); this.scheduledDate.getTime() throws when
\* the consultation has no scheduledDate
hasTimeConflict(id) ==
  /\ id \in Ids
  /\ IF consultations[id].scheduledDate = NoTime
     THEN Respond("hasTimeConflict", 500)
     ELSE response' = [op |-> "hasTimeConflict", code |-> 200, id |-> id,
                       result |-> existingConsultation(id) # {}]
  /\ UNCHANGED <<consultations, consultants, services, now, inflight, courses, enrollments, users, bookings>>

ScheduleBodies ==
  {[status |-> s, scheduledDate |-> d] : s \in {"confirmed", "cancelled"}, d \in Dates}

NextConflict ==
  \/ \E caller \in {"u1"}, duration \in DurationEnum :
        /\ Len(consultations) < MaxConflict
        /\ requestConsultation(caller, duration)
  \/ \E caller \in {"cu1", "cu2"}, id \in 1..MaxConflict, body \in ScheduleBodies :
        /\ id \in Ids => consultations[id].status = "pending"
        /\ updateConsultationStatus(caller, id, body)
  \/ \E id \in 1..MaxConflict : hasTimeConflict(id)

SpecConflict == Init /\ [][NextConflict]_vars

(***************************************************************************)
(* C25.  hasTimeConflict answers true exactly when another consultation of *)
(* the same consultant, pending or confirmed, has an interval              *)
(* [scheduledDate, scheduledDate + duration) that overlaps the interval of *)
(* the consultation asked about, whatever the two durations are.           *)
(***************************************************************************)
C25_ConflictIffOverlap ==
  (response.op = "hasTimeConflict" /\ response.code = 200) =>
    (response.result <=>
       \E j \in Ids :
         /\ j # response.id
         /\ consultations[j].consultant = consultations[response.id].consultant
         /\ consultations[j].status \in {"pending", "confirmed"}
         /\ consultations[j].scheduledDate # NoTime
         /\ consultations[j].scheduledDate < endTimeOf(consultations[response.id])
         /\ consultations[response.id].scheduledDate < endTimeOf(consultations[j]))

(***************************************************************************)
(* Service.updateRating.  rating.average is kept in tenths.                *)
(***************************************************************************)
\* parseFloat((((oldRating * oldCount) + newRating) / (oldCount + 1)).toFixed(1)),
\* in tenths: oldRating is the stored, already rounded average
newAverage(oldRating, oldCount, newRating) ==
  (2 * (oldRating * oldCount + 10 * newRating) + (oldCount + 1)) \div (2 * (oldCount + 1))

updateRating(s, newRating) ==
  /\ s \in DOMAIN services
  /\ LET old == services[s].rating
         distribution == [old.distribution EXCEPT ![newRating] = @ + 1]
     IN services' = [services EXCEPT ![s].rating =
          [average |-> newAverage(old.average, old.count, newRating),
           count |-> old.count + 1,
           distribution |-> distribution]]
  /\ Respond("updateRating", 200)
  /\ UNCHANGED <<consultations, consultants, now, inflight, courses, enrollments, users, bookings>>

NextServiceRating ==
  \E s \in {"s1"}, newRating \in Ratings :
    /\ services[s].rating.count < MaxServiceRated
    /\ updateRating(s, newRating)

SpecServiceRating == Init /\ [][NextServiceRating]_vars

\* the sum of the ratings a service has received
RatingSum(s) ==
  LET d == services[s].rating.distribution
  IN d[1] + 2 * d[2] + 3 * d[3] + 4 * d[4] + 5 * d[5]

RatingsGiven(s) ==
  LET d == services[s].rating.distribution
  IN d[1] + d[2] + d[3] + d[4] + d[5]

(***************************************************************************)
(* C27.  After any sequence of updateRating calls on a service, starting   *)
(* from average 0 and count 0, rating.count is the number of ratings given *)
(* and rating.average is their arithmetic mean rounded to one decimal      *)
(* place.                                                                  *)
(***************************************************************************)
C27_IncrementalIsMean ==
  \A s \in DOMAIN services :
    /\ services[s].rating.count = RatingsGiven(s)
    /\ services[s].rating.count > 0
         => services[s].rating.average = toFixed1(RatingSum(s), services[s].rating.count)

(***************************************************************************)
(* Enrollments change status (cancelled, paused, expired, completed) while *)
(* enroll requests interleave.                                             *)
(***************************************************************************)
\* a status change of an enrollment
EnrollmentStatusChange(k, status) ==
  /\ k \in DOMAIN enrollments
  /\ status \in EnrollmentStatuses
  /\ enrollments' = [enrollments EXCEPT ![k].status = status]
  /\ Respond("enrollmentStatus", 200)
  /\ UNCHANGED <<consultations, consultants, services, now, inflight, courses, users, bookings>>

NextReenroll ==
  \/ \E caller \in {"i1"}, price \in {100}, isPublished \in {TRUE} :
        /\ Len(courses) < 1
        /\ PostCourse(caller, price, isPublished)
  \/ \E r \in 1..MaxReenroll, caller \in Clients, id \in {1} :
        EnrollFindCourse(r, caller, id)
  \/ \E q \in inflight : EnrollFindExisting(q)
  \/ \E q \in inflight : EnrollSave(q)
  \/ \E q \in inflight : EnrollCount(q)
  \/ \E k \in 1..MaxReenroll, status \in {"cancelled", "paused", "expired"} :
        EnrollmentStatusChange(k, status)

SpecReenroll == Init /\ [][NextReenroll]_vars

Inactive == {"cancelled", "paused", "expired"}

(***************************************************************************)
(* C29.  In every reachable state, interleaved enroll requests of one user *)
(* included, a (user, course) pair has at most one enrollment record,      *)
(* whatever its status.  A request of a user whose enrollment in the       *)
(* course is cancelled, paused or expired gets past the active/completed   *)
(* check, and its insert then fails: no enrollment is stored and the       *)
(* course's counter is not incremented.                                    *)
(***************************************************************************)
C29_OneRecordPerPair ==
  /\ [](\A u \in Users, c \in CourseIds :
          Cardinality(existingEnrollment(u, c, EnrollmentStatuses)) <= 1)
  /\ [](\A u \in Users, c \in CourseIds :
          (/\ existingEnrollment(u, c, Inactive) # {}
           /\ courses[c].isPublished /\ courses[c].status = "published")
            => EnrollRejectCode(u, c) = 500)
  /\ [][\A q \in inflight :
          (/\ q.pc = "save"
           /\ existingEnrollment(q.user, q.id, Inactive) # {}
           /\ inflight' = inflight \ {q})
            => /\ enrollments' = enrollments
               /\ courses' = courses
               /\ response' = [op |-> "enroll", code |-> 500]]_vars

C29_ReenrollAfterCancelFails ==
  /\ response = [op |-> "enroll", code |-> 500]
  /\ inflight = {}
  /\ enrollments # <<>>
  /\ \A k \in DOMAIN enrollments : enrollments[k].status \in Inactive
  /\ \A c \in CourseIds : courses[c].enrollmentCount = Len(enrollments)

(***************************************************************************)
(* DELETE /courses/:id, one step per await, interleaved with enroll        *)
(* requests.                                                               *)
(***************************************************************************)
\* `const course = await Course.findById(req.params.id)' and the owner check
DeleteFindCourse(r, caller, id) ==
  /\ \A q \in inflight : q.req # r
  /\ IF id \notin CourseIds
     THEN /\ Respond("delete", 404)
          /\ UNCHANGED inflight
     ELSE IF courses[id].instructor # caller /\ role(caller) # "admin"
     THEN /\ Respond("delete", 403)
          /\ UNCHANGED inflight
     ELSE /\ inflight' = inflight \cup
                 {[req |-> r, user |-> caller, id |-> id, course |-> courses[id],
                   pc |-> "countDocuments"]}
          /\ UNCHANGED response
  /\ UNCHANGED <<consultations, consultants, services, now, courses, enrollments, users, bookings>>

\* Enrollment.countDocuments({course, status: {$in: ['active', 'completed']}})
activeEnrollments(id) ==
  Cardinality({k \in DOMAIN enrollments :
                 /\ enrollments[k].course = id
                 /\ enrollments[k].status \in {"active", "completed"}})

DeleteCount(q) ==
  /\ q \in inflight
  /\ q.pc = "countDocuments"
  /\ IF activeEnrollments(q.id) > 0
     THEN /\ Respond("delete", 400)
          /\ inflight' = inflight \ {q}
     ELSE /\ inflight' = (inflight \ {q}) \cup {[q EXCEPT !.pc = "delete"]}
          /\ UNCHANGED response
  /\ UNCHANGED <<consultations, consultants, services, now, courses, enrollments, users, bookings>>

\* `await Course.findByIdAndDelete(req.params.id)' and the response
DeleteCourse(q) ==
  /\ q \in inflight
  /\ q.pc = "delete"
  /\ courses' = [courses EXCEPT ![q.id].deleted = TRUE]
  /\ inflight' = inflight \ {q}
  /\ Respond("delete", 200)
  /\ UNCHANGED <<consultations, consultants, services, now, enrollments, users, bookings>>

NextDelete ==
  \/ \E caller \in {"i1"}, price \in {100}, isPublished \in {TRUE} :
        /\ Len(courses) < MaxDelete
        /\ PostCourse(caller, price, isPublished)
  \/ \E r \in 1..MaxDelete, caller \in {"u1"}, id \in 1..MaxDelete :
        EnrollFindCourse(r, caller, id)
  \/ \E q \in inflight : EnrollFindExisting(q)
  \/ \E q \in inflight : EnrollSave(q)
  \/ \E q \in inflight : EnrollCount(q)
  \/ \E r \in 1..MaxDelete, caller \in {"i1", "u1"}, id \in 1..MaxDelete :
        DeleteFindCourse(r, caller, id)
  \/ \E q \in inflight : DeleteCount(q)
  \/ \E q \in inflight : DeleteCourse(q)

SpecDelete == Init /\ [][NextDelete]_vars

(***************************************************************************)
(* C30.  Deleting courses keeps the enrollments' references intact: after  *)
(* any sequence of enroll and delete requests, interleaved ones included,  *)
(* every active or completed enrollment refers to a course that exists.    *)
(***************************************************************************)
C30_EnrollmentsReferToCourses ==
  \A k \in DOMAIN enrollments :
    enrollments[k].status \in {"active", "completed"} => enrollments[k].course \in CourseIds

====
